---- MODULE Spec2Model ----
(***************************************************************************)
(* Model of atropos/commands.py: the trim subcommand and the construction  *)
(* of its pipeline parameters (create_reader, create_atropos_params), and  *)
(* the filter/formatter routing of the pairs the executor processes.       *)
(***************************************************************************)
EXTENDS Integers, Sequences, FiniteSets, TLC

(***************************************************************************)
(* Values                                                                  *)
(***************************************************************************)

\* Python None for a string-valued option.
NoneStr == "None"

\* Python None for a number- or tuple-valued option is the empty tuple; a
\* value v is the one-element tuple <<v>>.
IsNone(x) == x = <<>>

\* Truth value of a string-valued option (None and "" are false).
Truthy(s) == s \notin {NoneStr, ""}

\* sys.maxsize, at the width of the model checker's integers; only the
\* comparisons of maximum_length with it matter.
sys_maxsize == 2147483647

\* adapters.BACK and the other placements an adapter can have.
BACK == "BACK"
FRONT == "FRONT"

Adapter(n, w) == [name |-> n, where |-> w]

\* What adapters[0] yields; indexing an empty list raises IndexError.
First(s) == IF s = <<>> THEN Adapter("IndexError", "IndexError") ELSE s[1]

\* options.bisulfite: False, a preset name, or a list of per-read MinCutter
\* parameter dicts (params[i] is the truth value of the i-th dict).
BisFalse == [isstr |-> FALSE, str |-> "", params |-> <<>>]
BisPreset(s) == [isstr |-> TRUE, str |-> s, params |-> <<>>]
BisParams(p) == [isstr |-> FALSE, str |-> "", params |-> p]

\* The preset names of the bisulfite option.
BisulfitePresets ==
    {"rrbs", "non-directional", "non-directional-rrbs", "epignome", "truseq", "swift"}

\* Strings tried as options.bisulfite: the presets and two that are none.
BisulfiteStrings == BisulfitePresets \cup {"pbat", "non-directional-pbat"}

\* '"non-directional" in s' for the strings of BisulfiteStrings.
ContainsNonDirectional(s) ==
    s \in {"non-directional", "non-directional-rrbs", "non-directional-pbat"}

\* Output paths; a multiplexed path is a template with a {name} field.
TemplatePaths == {"out_{name}.fq"}

\* str.format(name='unknown') on a path.
FormatUnknown(path) == IF path = "out_{name}.fq" THEN "out_unknown.fq" ELSE path

\* The four letters of op_order and all their orders.
OpLetters == {"A", "C", "G", "Q"}
Permutations4 ==
    {<<a, b, c, d>> : a \in OpLetters, b \in OpLetters, c \in OpLetters, d \in OpLetters}
OpOrders == {s \in Permutations4 : {s[i] : i \in 1..4} = OpLetters}

(***************************************************************************)
(* Bounds                                                                  *)
(***************************************************************************)

\* Pairs the executor processes in one run.
MaxPairs == 2

\* Trimming criteria of the adapter check that differ from their default in
\* one configuration.
MaxCriteria == 2

\* At most this many of the modifiers outside the op_order categories are
\* switched on together (besides the run that switches all of them on).
MaxOther == 2

\* Batches the reader of the parallel executor emits at most, and worker
\* threads at most.
MaxBatches == 3
MaxWorkers == 2

\* Items the reader of detect and error yields at most.
MaxReads == 2

(***************************************************************************)
(* Configurations: the options and the input trim is called with           *)
(***************************************************************************)

\* A paired-end run with one 3' adapter per read and every other option at
\* its command-line default.
DefaultOptions == [
    input2 |-> "reads_2.fq", interleaved_input |-> NoneStr, paired |-> "both",
    adapters |-> <<Adapter("a", BACK)>>, adapters2 |-> <<Adapter("b", BACK)>>,
    adapter_pair |-> <<>>, aligner |-> "adapter",
    op_order |-> <<"C", "G", "Q", "A">>,
    quality_cutoff |-> <<>>, nextseq_trim |-> <<>>,
    cut |-> <<>>, cut2 |-> <<>>, cut_min |-> <<>>, cut_min2 |-> <<>>,
    minimum_length |-> <<>>, maximum_length |-> sys_maxsize,
    max_n |-> -1, trim_n |-> FALSE, bisulfite |-> BisFalse,
    length_tag |-> NoneStr, strip_suffix |-> <<>>, prefix |-> "", suffix |-> "",
    double_encode |-> FALSE, zero_cap |-> FALSE, trim_primer |-> FALSE,
    merge_overlapping |-> FALSE, merged_output |-> NoneStr,
    pair_filter |-> "any",
    interleaved_output |-> NoneStr, output |-> NoneStr, paired_output |-> NoneStr,
    too_short_output |-> NoneStr, too_short_paired_output |-> NoneStr,
    too_long_output |-> NoneStr, too_long_paired_output |-> NoneStr,
    discard_trimmed |-> FALSE, discard_untrimmed |-> FALSE,
    untrimmed_output |-> NoneStr, untrimmed_paired_output |-> NoneStr,
    no_writer_process |-> FALSE,
    rest_file |-> NoneStr, info_file |-> NoneStr, wildcard_file |-> NoneStr,
    default_outfile |-> "-",
    threads |-> <<>>, process_timeout |-> 60, preserve_order |-> FALSE,
    read_queue_size |-> 2, result_queue_size |-> 2, compression |-> NoneStr
]

\* A readable FASTQ input.
DefaultInput == [readable |-> TRUE, delivers_qualities |-> TRUE]

Config(o, i) == [options |-> o, input |-> i]

\* Number of trimming criteria of the adapter check that o sets.
CriteriaSet(o) ==
    Cardinality({c \in 1..13 :
        \/ c = 1 /\ o.adapters # <<>>
        \/ c = 2 /\ o.adapters2 # <<>>
        \/ c = 3 /\ o.quality_cutoff # <<>>
        \/ c = 4 /\ o.nextseq_trim # <<>>
        \/ c = 5 /\ o.cut # <<>>
        \/ c = 6 /\ o.cut2 # <<>>
        \/ c = 7 /\ o.cut_min # <<>>
        \/ c = 8 /\ o.cut_min2 # <<>>
        \/ c = 9 /\ o.minimum_length # <<>>
        \/ c = 10 /\ o.maximum_length # sys_maxsize
        \/ c = 11 /\ o.input2 # NoneStr
        \/ c = 12 /\ o.max_n # -1
        \/ c = 13 /\ o.trim_n})

\* Single-end runs that set at most MaxCriteria of the criteria the adapter
\* check looks at.
CriteriaOptions ==
    {o \in
        {[DefaultOptions EXCEPT
            !.paired = "False", !.input2 = q,
            !.adapters = a1, !.adapters2 = a2,
            !.quality_cutoff = qc, !.nextseq_trim = ns,
            !.cut = c1, !.cut2 = c2, !.cut_min = m1, !.cut_min2 = m2,
            !.minimum_length = mn, !.maximum_length = mx,
            !.max_n = n, !.trim_n = tn] :
            q \in {NoneStr, "reads.qual"},
            a1 \in {<<>>, <<Adapter("a", BACK)>>},
            a2 \in {<<>>, <<Adapter("b", FRONT)>>},
            qc \in {<<>>, <<20, 20>>},
            ns \in {<<>>, <<0>>},
            c1 \in {<<>>, <<5>>}, c2 \in {<<>>, <<-3>>},
            m1 \in {<<>>, <<2>>}, m2 \in {<<>>, <<2>>},
            mn \in {<<>>, <<0>>, <<1>>},
            mx \in {1, sys_maxsize},
            n \in {-2, -1, 0},
            tn \in BOOLEAN} :
        CriteriaSet(o) <= MaxCriteria}

\* Adapter lists tried with both aligners.
AdapterLists == {
    <<>>,
    <<Adapter("a", BACK)>>,
    <<Adapter("a", FRONT)>>,
    <<Adapter("a", BACK), Adapter("b", BACK)>>,
    <<Adapter("a", FRONT), Adapter("b", BACK)>>
}

AlignerOptions ==
    {[DefaultOptions EXCEPT
        !.aligner = al, !.adapters = a1, !.adapters2 = a2, !.adapter_pair = ap,
        !.trim_n = TRUE] :
        al \in {"adapter", "insert"},
        a1 \in AdapterLists, a2 \in AdapterLists,
        ap \in {<<>>, <<"a", "b">>, <<"b", "b">>}}

\* Every order of the four categories with every category switched on or off.
OpOrderOptions ==
    {[DefaultOptions EXCEPT
        !.op_order = oo, !.adapters = a1, !.adapters2 = <<>>,
        !.cut = c1, !.cut2 = c2, !.nextseq_trim = ns, !.quality_cutoff = qc,
        !.trim_n = TRUE] :
        oo \in OpOrders,
        a1 \in {<<>>, <<Adapter("a", BACK)>>},
        c1 \in {<<>>, <<5>>}, c2 \in {<<>>, <<-3>>},
        ns \in {<<>>, <<0>>},
        qc \in {<<>>, <<20, 20>>}}

BisulfiteOptions ==
    {[DefaultOptions EXCEPT !.bisulfite = b] :
        b \in {BisPreset(s) : s \in BisulfiteStrings}
              \cup {BisParams(p) : p \in {<<TRUE>>, <<TRUE, TRUE>>, <<FALSE, TRUE>>}}}

\* The options that build the filter chain and its sinks.
FilterOptions ==
    {[DefaultOptions EXCEPT
        !.minimum_length = mn, !.maximum_length = mx,
        !.discard_trimmed = dt, !.discard_untrimmed = du,
        !.untrimmed_output = uo, !.output = out] :
        mn \in {<<>>, <<1>>},
        mx \in {1, sys_maxsize},
        dt \in BOOLEAN, du \in BOOLEAN,
        uo \in {NoneStr, "untrimmed.fq"},
        out \in {NoneStr, "out.fq", "out_{name}.fq"}}

\* The sinks of the reads the length filters own.
LengthOutputOptions ==
    {[DefaultOptions EXCEPT
        !.minimum_length = mn, !.maximum_length = mx,
        !.too_short_output = ts, !.too_long_output = tl] :
        mn \in {<<>>, <<1>>},
        mx \in {1, sys_maxsize},
        ts \in {NoneStr, "short.fq"},
        tl \in {NoneStr, "long.fq"}}

\* The options that name the main output files.
OutputOptions ==
    {[DefaultOptions EXCEPT
        !.output = out, !.paired_output = po, !.interleaved_output = io,
        !.default_outfile = df, !.no_writer_process = nw,
        !.merge_overlapping = mo, !.merged_output = mg] :
        out \in {NoneStr, "-", "out.fq"},
        po \in {NoneStr, "out_2.fq"},
        io \in {NoneStr, "out_{name}.fq", "interleaved.fq"},
        df \in {"-", "default.fq"},
        nw \in BOOLEAN,
        mo \in BOOLEAN,
        mg \in {NoneStr, "merged.fq"}}

\* The pair filter modes, in every paired mode.
PairFilterOptions ==
    {[DefaultOptions EXCEPT
        !.pair_filter = pf, !.paired = p,
        !.minimum_length = <<1>>, !.max_n = n, !.discard_trimmed = dt] :
        pf \in {"any", "both", "first"},
        p \in {"False", "first", "both"},
        n \in {-1, 0},
        dt \in BOOLEAN}

\* The paired modes, with and without modifiers that reach read 2, with an
\* op_order that does and one that does not run the quality trimmer.
LegacyOptions ==
    {[DefaultOptions EXCEPT
        !.paired = p, !.adapters2 = a2, !.quality_cutoff = qc,
        !.nextseq_trim = ns, !.op_order = oo] :
        p \in {"False", "first", "both"},
        a2 \in {<<>>, <<Adapter("b", BACK)>>},
        qc \in {<<>>, <<20, 20>>},
        ns \in {<<>>, <<0>>},
        oo \in {<<"C", "G", "Q", "A">>, <<"C", "G", "A">>}}

\* The options behind the modifiers outside the op_order categories: S is
\* the set of those switched on, b the bisulfite value when it is one of them.
WithOthers(S, b, oo) ==
    [DefaultOptions EXCEPT
        !.op_order = oo,
        !.bisulfite = IF 1 \in S THEN b ELSE BisFalse,
        !.trim_n = 2 \in S,
        !.cut_min = IF 3 \in S THEN <<2>> ELSE <<>>,
        !.length_tag = IF 4 \in S THEN "length=" ELSE NoneStr,
        !.strip_suffix = IF 5 \in S THEN <<"/1">> ELSE <<>>,
        !.prefix = IF 6 \in S THEN "x_" ELSE "",
        !.double_encode = 7 \in S,
        !.zero_cap = 8 \in S,
        !.trim_primer = 9 \in S,
        !.merge_overlapping = 10 \in S,
        !.quality_cutoff = <<20, 20>>, !.cut = <<5>>]

MiscOptions ==
    {WithOthers(S, b, oo) :
        S \in {T \in SUBSET (1..10) : Cardinality(T) <= MaxOther \/ T = 1..10},
        b \in {BisPreset("rrbs"), BisParams(<<TRUE, TRUE>>)},
        oo \in {<<"C", "G", "Q", "A">>, <<"A", "Q", "G", "C">>}}

\* The executors.
ThreadOptions == {[DefaultOptions EXCEPT !.threads = t] : t \in {<<>>, <<1>>, <<4>>}}

Configs ==
    {Config(o, DefaultInput) :
        o \in CriteriaOptions \cup AlignerOptions \cup OpOrderOptions
              \cup BisulfiteOptions \cup FilterOptions \cup LengthOutputOptions
              \cup OutputOptions
              \cup PairFilterOptions \cup LegacyOptions \cup ThreadOptions}
    \cup {Config(DefaultOptions, [readable |-> r, delivers_qualities |-> q]) :
            r \in BOOLEAN, q \in BOOLEAN}
    \cup {Config(o, [readable |-> TRUE, delivers_qualities |-> q]) :
            o \in MiscOptions, q \in BOOLEAN}

(***************************************************************************)
(* State                                                                   *)
(***************************************************************************)

VARIABLES
    options,        \* the parsed command line trim is called with
    input,          \* what the input files are: readable, with qualities
    pc,             \* the statement trim is at
    qualities,      \* reader.delivers_qualities
    has_qual_file,  \* third result of create_reader
    adapters1,      \* create_atropos_params: adapters of read 1
    adapters2,      \* create_atropos_params: adapters of read 2
    op_idx,         \* position of the loop over options.op_order
    modifiers,      \* the registrations made on Modifiers, in order
    min_affected,   \* second argument of FilterFactory
    filters,        \* the filter kinds added to Filters, in order
    formatters,     \* the add_seq_formatter calls made on Formatters, in order
    info_formatters,\* the add_info_formatter calls, in order
    force_create,   \* the list handed to Writers
    error_msg,      \* message of the parser.error call that ended the run
    exit_code,      \* exit status of the process, <<>> while it runs
    warned,         \* the backwards-compatibility warning was logged
    executor,       \* which executor was started
    rc,             \* return code of the executor, <<>> before it returns
    report_calls,   \* calls of print_report
    n_in,           \* pairs the executor has read
    n_out,          \* pair records written to sequence sinks
    cur_pair,       \* the pair processed last
    owner,          \* the filter kind that owns cur_pair
    written,        \* the sinks cur_pair was written to
    run_args,       \* the arguments run_parallel was called with
    read_queue,     \* parallel executor: batches (0: a sentinel) for the workers
    next_batch,     \* batch_index of the batch the reader emits next
    sentinels_sent, \* sentinels the reader has put on read_queue
    working,        \* per worker: 0 idle, k > 0 holding batch k, -1 holding
                    \* its final result, -2 exited
    result_queue,   \* results (0: a worker's final one) for the writer
    heap,           \* batch indices the writer holds back
    next_index,     \* batch index the writer expects next
    output,         \* batch indices in the order the writer wrote them
    out_of_order,   \* a result reached the writer ahead of an earlier batch
    sentinels_seen, \* final results the writer has received
    aborted,        \* the shared abort flag
    command,        \* the subcommand that runs: trim, detect or error
    globals_bound,  \* the names commands.py uses without importing them are
                    \* bound in the module's namespace when it runs
    reader_returned,\* detect, error: create_reader has returned a reader
    close_calls,    \* detect, error: calls of reader.close()
    exc,            \* detect, error: the exception that is propagating
    reads_left      \* detect, error: items the reader has yet to yield

vars == <<options, input, pc, qualities, has_qual_file, adapters1, adapters2,
          op_idx, modifiers, min_affected, filters, formatters, info_formatters,
          force_create, error_msg, exit_code, warned, executor, rc, report_calls,
          n_in, n_out, cur_pair, owner, written,
          run_args, read_queue, next_batch, sentinels_sent, working, result_queue,
          heap, next_index, output, out_of_order, sentinels_seen, aborted,
          command, globals_bound, reader_returned, close_calls, exc, reads_left>>

cmdVars == <<command, globals_bound, reader_returned, close_calls, exc, reads_left>>

pipeVars == <<read_queue, next_batch, sentinels_sent, working, result_queue,
              heap, next_index, output, out_of_order, sentinels_seen, aborted>>

parVars == <<run_args, pipeVars>>

paramVars == <<qualities, has_qual_file, adapters1, adapters2, op_idx, modifiers,
               min_affected, filters, formatters, info_formatters, force_create>>

runVars == <<warned, executor, rc, report_calls, n_in, n_out, cur_pair, owner, written>>

\* The messages of the parser.error calls.
MsgReader == "cannot open input"
MsgNeedAdapter == "You need to provide at least one adapter sequence."
MsgInsert == "Insert aligner requires a single 3' adapter for each read"
NoMsg == ""

NoPair == [short |-> {}, long |-> {}, ncontent |-> {}, match |-> {}]

\* run_parallel has not been called.
NoArgs ==
    [threads |-> 0, process_timeout |-> 0, preserve_order |-> FALSE,
     read_queue_size |-> 0, result_queue_size |-> 0, writer_process |-> FALSE,
     compression |-> NoneStr]

\* No exception is propagating.
NoExc == "none"

\* Nothing has been built, run or read yet.
Fresh ==
    /\ qualities = FALSE
    /\ has_qual_file = FALSE
    /\ adapters1 = <<>>
    /\ adapters2 = <<>>
    /\ op_idx = 1
    /\ modifiers = <<>>
    /\ min_affected = 0
    /\ filters = <<>>
    /\ formatters = <<>>
    /\ info_formatters = <<>>
    /\ force_create = <<>>
    /\ error_msg = NoMsg
    /\ exit_code = <<>>
    /\ warned = FALSE
    /\ executor = "none"
    /\ rc = <<>>
    /\ report_calls = 0
    /\ n_in = 0
    /\ n_out = 0
    /\ cur_pair = NoPair
    /\ owner = "none"
    /\ written = <<>>
    /\ run_args = NoArgs
    /\ read_queue = <<>>
    /\ next_batch = 1
    /\ sentinels_sent = 0
    /\ working = [w \in 1..MaxWorkers |-> 0]
    /\ result_queue = <<>>
    /\ heap = {}
    /\ next_index = 1
    /\ output = <<>>
    /\ out_of_order = FALSE
    /\ sentinels_seen = 0
    /\ aborted = FALSE
    /\ reader_returned = FALSE
    /\ close_calls = 0
    /\ exc = NoExc

\* The state trim starts in, whatever the options are.
Entered ==
    /\ pc = "create_reader"
    /\ command = "trim"
    /\ globals_bound = TRUE
    /\ reads_left = 0
    /\ Fresh

Init ==
    /\ \E c \in Configs : options = c.options /\ input = c.input
    /\ Entered

\* parser.error(msg): print the message and exit with status 2.
ParserError(msg) ==
    /\ pc' = "exit"
    /\ error_msg' = msg
    /\ exit_code' = <<2>>

(***************************************************************************)
(* create_reader                                                           *)
(***************************************************************************)

\* The qualfile create_reader passes to open_reader.
QualFile(o) ==
    IF Truthy(o.interleaved_input) THEN NoneStr
    ELSE IF o.paired # "False" THEN NoneStr
    ELSE o.input2

CreateReader ==
    /\ pc = "create_reader"
    /\ IF ~input.readable
       THEN /\ ParserError(MsgReader)
            /\ UNCHANGED <<qualities, has_qual_file>>
       ELSE /\ qualities' = input.delivers_qualities
            /\ has_qual_file' = (QualFile(options) # NoneStr)
            /\ pc' = "parse_adapters"
            /\ UNCHANGED <<error_msg, exit_code>>
    /\ UNCHANGED <<options, input, adapters1, adapters2, op_idx, modifiers,
                   min_affected, filters, formatters, info_formatters, force_create>>
    /\ UNCHANGED runVars
    /\ UNCHANGED parVars
    /\ UNCHANGED cmdVars

(***************************************************************************)
(* create_atropos_params: adapters                                         *)
(***************************************************************************)

ParseAdapters ==
    /\ pc = "parse_adapters"
    /\ adapters1' = options.adapters
    /\ adapters2' = options.adapters2
    /\ pc' = "check_adapters"
    /\ UNCHANGED <<options, input, qualities, has_qual_file, op_idx, modifiers,
                   min_affected, filters, formatters, info_formatters, force_create,
                   error_msg, exit_code>>
    /\ UNCHANGED runVars
    /\ UNCHANGED parVars
    /\ UNCHANGED cmdVars

\* The condition under which create_atropos_params asks for an adapter.
NoTrimmingCriteria(o, a1, a2, hq) ==
    /\ a1 = <<>> /\ a2 = <<>> /\ o.quality_cutoff = <<>>
    /\ IsNone(o.nextseq_trim)
    /\ o.cut = <<>> /\ o.cut2 = <<>>
    /\ o.cut_min = <<>> /\ o.cut_min2 = <<>>
    /\ (IsNone(o.minimum_length) \/ o.minimum_length[1] <= 0)
    /\ o.maximum_length = sys_maxsize
    /\ ~hq /\ o.max_n = -1 /\ ~o.trim_n

CheckAdapters ==
    /\ pc = "check_adapters"
    /\ IF NoTrimmingCriteria(options, adapters1, adapters2, has_qual_file)
       THEN ParserError(MsgNeedAdapter)
       ELSE /\ pc' = "check_insert"
            /\ UNCHANGED <<error_msg, exit_code>>
    /\ UNCHANGED <<options, input>>
    /\ UNCHANGED paramVars
    /\ UNCHANGED parVars
    /\ UNCHANGED cmdVars
    /\ UNCHANGED runVars

\* [a for a in adapters if a.name == name]
FilterByName(s, n) ==
    LET F[i \in 0..Len(s)] ==
            IF i = 0 THEN <<>>
            ELSE IF s[i].name = n THEN Append(F[i - 1], s[i]) ELSE F[i - 1]
    IN F[Len(s)]

\* Whether the adapter_pair names are applied to the adapter lists.
PairSelected(o, a1, a2) == o.adapter_pair # <<>> /\ a1 # <<>> /\ a2 # <<>>

InsertAdapters1(o, a1, a2) ==
    IF PairSelected(o, a1, a2) THEN FilterByName(a1, o.adapter_pair[1]) ELSE a1

InsertAdapters2(o, a1, a2) ==
    IF PairSelected(o, a1, a2) THEN FilterByName(a2, o.adapter_pair[2]) ELSE a2

\* The adapter lists the insert aligner refuses.
InsertAlignerInvalidRead1Only(a1, a2) ==
    \/ a1 = <<>> \/ Len(a1) # 1 \/ a1[1].where # BACK
    \/ a2 = <<>> \/ Len(a2) # 1

InsertAlignerInvalid(a1, a2) ==
    \/ a1 = <<>> \/ Len(a1) # 1 \/ a1[1].where # BACK
    \/ a2 = <<>> \/ Len(a2) # 1 \/ a2[1].where # BACK

CheckInsertAligner ==
    /\ pc = "check_insert"
    /\ IF options.aligner = "insert"
       THEN /\ adapters1' = InsertAdapters1(options, adapters1, adapters2)
            /\ adapters2' = InsertAdapters2(options, adapters1, adapters2)
            /\ IF InsertAlignerInvalid(adapters1', adapters2')
               THEN ParserError(MsgInsert)
               ELSE /\ pc' = IF Len(options.op_order) = 0 THEN "bisulfite" ELSE "op_order"
                    /\ UNCHANGED <<error_msg, exit_code>>
       ELSE /\ pc' = IF Len(options.op_order) = 0 THEN "bisulfite" ELSE "op_order"
            /\ UNCHANGED <<adapters1, adapters2, error_msg, exit_code>>
    /\ UNCHANGED <<options, input, qualities, has_qual_file, op_idx, modifiers,
                   min_affected, filters, formatters, info_formatters, force_create>>
    /\ UNCHANGED runVars
    /\ UNCHANGED parVars
    /\ UNCHANGED cmdVars

(***************************************************************************)
(* create_atropos_params: modifiers                                        *)
(***************************************************************************)

\* modifiers.add_modifier(cls, read=r, ...); r = 0 when read is not given.
Modifier(cls, r) == [class |-> cls, call |-> "add_modifier", read |-> r]

\* modifiers.add_modifier_pair(cls, args1, args2); g1, g2: args is not None.
ModifierPair(cls, g1, g2) ==
    [class |-> cls, call |-> "add_modifier_pair", read |-> 0, args1 |-> g1, args2 |-> g2]

InsertCutter(a1, a2) ==
    [class |-> "InsertAdapterCutter", call |-> "add_modifier", read |-> 0,
     adapter1 |-> First(a1), adapter2 |-> First(a2)]

\* What one iteration of the loop over op_order registers.
OpModifiersCutOnly(op, o, a1, a2) ==
    IF op = "A" /\ (a1 # <<>> \/ a2 # <<>>)
    THEN IF o.aligner = "insert"
         THEN <<InsertCutter(a1, a2)>>
         ELSE <<ModifierPair("AdapterCutter", a1 # <<>>, a2 # <<>>)>>
    ELSE IF op = "C" /\ o.cut # <<>>
    THEN <<ModifierPair("UnconditionalCutter", TRUE, TRUE)>>
    ELSE IF op = "G" /\ ~IsNone(o.nextseq_trim)
    THEN <<Modifier("NextseqQualityTrimmer", 1)>>
    ELSE IF op = "Q" /\ o.quality_cutoff # <<>>
    THEN <<Modifier("QualityTrimmer", 0)>>
    ELSE <<>>

OpModifiers(op, o, a1, a2) ==
    IF op = "A" /\ (a1 # <<>> \/ a2 # <<>>)
    THEN IF o.aligner = "insert"
         THEN <<InsertCutter(a1, a2)>>
         ELSE <<ModifierPair("AdapterCutter", a1 # <<>>, a2 # <<>>)>>
    ELSE IF op = "C" /\ (o.cut # <<>> \/ o.cut2 # <<>>)
    THEN <<ModifierPair("UnconditionalCutter", TRUE, TRUE)>>
    ELSE IF op = "G" /\ ~IsNone(o.nextseq_trim)
    THEN <<Modifier("NextseqQualityTrimmer", 1)>>
    ELSE IF op = "Q" /\ o.quality_cutoff # <<>>
    THEN <<Modifier("QualityTrimmer", 0)>>
    ELSE <<>>

AddOpModifier ==
    /\ pc = "op_order"
    /\ op_idx <= Len(options.op_order)
    /\ modifiers' = modifiers \o
            OpModifiers(options.op_order[op_idx], options, adapters1, adapters2)
    /\ op_idx' = op_idx + 1
    /\ pc' = IF op_idx = Len(options.op_order) THEN "bisulfite" ELSE "op_order"
    /\ UNCHANGED <<options, input, qualities, has_qual_file, adapters1, adapters2,
                   min_affected, filters, formatters, info_formatters, force_create,
                   error_msg, exit_code>>
    /\ UNCHANGED runVars
    /\ UNCHANGED parVars
    /\ UNCHANGED cmdVars

\* Truth value of options.bisulfite.
BisulfiteSet(b) == IF b.isstr THEN b.str # "" ELSE b.params # <<>>

BisulfiteModifiers(b) ==
    IF ~BisulfiteSet(b) THEN <<>>
    ELSE IF b.isstr
    THEN IF ContainsNonDirectional(b.str)
         THEN <<Modifier("NonDirectionalBisulfiteTrimmer", 0)>>
         ELSE IF b.str = "rrbs" THEN <<Modifier("RRBSTrimmer", 0)>>
         ELSE IF b.str \in {"epignome", "truseq"} THEN <<>>
         ELSE IF b.str = "swift" THEN <<Modifier("SwiftBisulfiteTrimmer", 0)>>
         ELSE <<>>
    ELSE (IF b.params[1] THEN <<Modifier("MinCutter", 1)>> ELSE <<>>)
         \o (IF Len(b.params) > 1 /\ b.params[2]
             THEN <<Modifier("MinCutter", 2)>> ELSE <<>>)

AddBisulfiteModifiers ==
    /\ pc = "bisulfite"
    /\ modifiers' = modifiers \o BisulfiteModifiers(options.bisulfite)
    /\ pc' = "modifiers"
    /\ UNCHANGED <<options, input, qualities, has_qual_file, adapters1, adapters2,
                   op_idx, min_affected, filters, formatters, info_formatters,
                   force_create, error_msg, exit_code>>
    /\ UNCHANGED runVars
    /\ UNCHANGED parVars
    /\ UNCHANGED cmdVars

\* The modifiers registered after the bisulfite ones.
OtherModifiersMergeEarly(o, q) ==
    (IF o.trim_n THEN <<Modifier("NEndTrimmer", 0)>> ELSE <<>>)
    \o (IF o.cut_min # <<>> \/ o.cut_min2 # <<>>
        THEN <<ModifierPair("MinCutter", TRUE, TRUE)>> ELSE <<>>)
    \o (IF Truthy(o.length_tag) THEN <<Modifier("LengthTagModifier", 0)>> ELSE <<>>)
    \o (IF o.strip_suffix # <<>> THEN <<Modifier("SuffixRemover", 0)>> ELSE <<>>)
    \o (IF Truthy(o.prefix) \/ Truthy(o.suffix)
        THEN <<Modifier("PrefixSuffixAdder", 0)>> ELSE <<>>)
    \o (IF o.double_encode THEN <<Modifier("DoubleEncoder", 0)>> ELSE <<>>)
    \o (IF o.zero_cap /\ q THEN <<Modifier("ZeroCapper", 0)>> ELSE <<>>)
    \o (IF o.merge_overlapping THEN <<Modifier("MergeOverlapping", 0)>> ELSE <<>>)
    \o (IF o.trim_primer THEN <<Modifier("PrimerTrimmer", 0)>> ELSE <<>>)

OtherModifiers(o, q) ==
    (IF o.trim_n THEN <<Modifier("NEndTrimmer", 0)>> ELSE <<>>)
    \o (IF o.cut_min # <<>> \/ o.cut_min2 # <<>>
        THEN <<ModifierPair("MinCutter", TRUE, TRUE)>> ELSE <<>>)
    \o (IF Truthy(o.length_tag) THEN <<Modifier("LengthTagModifier", 0)>> ELSE <<>>)
    \o (IF o.strip_suffix # <<>> THEN <<Modifier("SuffixRemover", 0)>> ELSE <<>>)
    \o (IF Truthy(o.prefix) \/ Truthy(o.suffix)
        THEN <<Modifier("PrefixSuffixAdder", 0)>> ELSE <<>>)
    \o (IF o.double_encode THEN <<Modifier("DoubleEncoder", 0)>> ELSE <<>>)
    \o (IF o.zero_cap /\ q THEN <<Modifier("ZeroCapper", 0)>> ELSE <<>>)
    \o (IF o.trim_primer THEN <<Modifier("PrimerTrimmer", 0)>> ELSE <<>>)
    \o (IF o.merge_overlapping THEN <<Modifier("MergeOverlapping", 0)>> ELSE <<>>)

AddOtherModifiers ==
    /\ pc = "modifiers"
    /\ modifiers' = modifiers \o OtherModifiers(options, qualities)
    /\ pc' = "filters"
    /\ UNCHANGED <<options, input, qualities, has_qual_file, adapters1, adapters2,
                   op_idx, min_affected, filters, formatters, info_formatters,
                   force_create, error_msg, exit_code>>
    /\ UNCHANGED runVars
    /\ UNCHANGED parVars
    /\ UNCHANGED cmdVars

(***************************************************************************)
(* create_atropos_params: filters and formatters                           *)
(***************************************************************************)

\* min_affected, the second argument of FilterFactory.
MinAffected(o) == IF o.pair_filter = "both" THEN 2 ELSE 1

Output1(o) ==
    IF Truthy(o.interleaved_output) THEN o.interleaved_output ELSE o.output

Output2(o) ==
    IF Truthy(o.interleaved_output) THEN NoneStr ELSE o.paired_output

\* Formatters.multiplexed: the main output is a template.
Multiplexed(output1) == output1 \in TemplatePaths

\* formatters.add_seq_formatter(kind, file1, file2)
SeqFormatter(kind, f1, f2) == [filter |-> kind, file1 |-> f1, file2 |-> f2]

\* The filters added before the main output is registered.
LengthFiltersTrimmedFirst(o) ==
    (IF o.discard_trimmed THEN <<"Trimmed">> ELSE <<>>)
    \o (IF ~IsNone(o.minimum_length) /\ o.minimum_length[1] > 0
        THEN <<"TooShort">> ELSE <<>>)
    \o (IF o.maximum_length < sys_maxsize THEN <<"TooLong">> ELSE <<>>)
    \o (IF o.max_n >= 0 THEN <<"NContent">> ELSE <<>>)

LengthFiltersKeepTrimmed(o) ==
    (IF ~IsNone(o.minimum_length) /\ o.minimum_length[1] > 0
     THEN <<"TooShort">> ELSE <<>>)
    \o (IF o.maximum_length < sys_maxsize THEN <<"TooLong">> ELSE <<>>)
    \o (IF o.max_n >= 0 THEN <<"NContent">> ELSE <<>>)
    \o (IF o.discard_trimmed /\ ~Truthy(o.untrimmed_output)
        THEN <<"Trimmed">> ELSE <<>>)

LengthFilters(o) ==
    (IF ~IsNone(o.minimum_length) /\ o.minimum_length[1] > 0
     THEN <<"TooShort">> ELSE <<>>)
    \o (IF o.maximum_length < sys_maxsize THEN <<"TooLong">> ELSE <<>>)
    \o (IF o.max_n >= 0 THEN <<"NContent">> ELSE <<>>)
    \o (IF o.discard_trimmed THEN <<"Trimmed">> ELSE <<>>)

\* The filter added after the main output is registered.
UntrimmedFilters(o) ==
    IF o.discard_untrimmed \/ Truthy(o.untrimmed_output)
    THEN <<"Untrimmed">> ELSE <<>>

\* The sinks of the merged, too short and too long reads.
LengthFormatters(o) ==
    (IF o.merge_overlapping /\ Truthy(o.merged_output)
     THEN <<SeqFormatter("MergedRead", o.merged_output, NoneStr)>> ELSE <<>>)
    \o (IF ~IsNone(o.minimum_length) /\ o.minimum_length[1] > 0
           /\ Truthy(o.too_short_output)
        THEN <<SeqFormatter("TooShort", o.too_short_output, o.too_short_paired_output)>>
        ELSE <<>>)
    \o (IF o.maximum_length < sys_maxsize /\ o.too_long_output # NoneStr
        THEN <<SeqFormatter("TooLong", o.too_long_output, o.too_long_paired_output)>>
        ELSE <<>>)

\* The sink of the main output.
MainFormattersAlways(o) ==
    IF Output1(o) # NoneStr
    THEN <<SeqFormatter("NoFilter", Output1(o), Output2(o))>>
    ELSE IF ~(o.discard_trimmed /\ Truthy(o.untrimmed_output))
    THEN <<SeqFormatter("NoFilter", o.default_outfile, NoneStr)>>
    ELSE <<>>

MainFormattersNoDefault(o) ==
    IF Multiplexed(Output1(o)) THEN <<>>
    ELSE IF Output1(o) # NoneStr
    THEN <<SeqFormatter("NoFilter", Output1(o), Output2(o))>>
    ELSE IF o.discard_trimmed
    THEN <<SeqFormatter("NoFilter", o.default_outfile, NoneStr)>>
    ELSE <<>>

MainFormatters(o) ==
    IF Multiplexed(Output1(o)) THEN <<>>
    ELSE IF Output1(o) # NoneStr
    THEN <<SeqFormatter("NoFilter", Output1(o), Output2(o))>>
    ELSE IF ~(o.discard_trimmed /\ Truthy(o.untrimmed_output))
    THEN <<SeqFormatter("NoFilter", o.default_outfile, NoneStr)>>
    ELSE <<>>

\* The files of the main output that are opened eagerly.
ForceCreateFirstFileOnly(o) ==
    IF Multiplexed(Output1(o)) THEN <<>>
    ELSE IF Output1(o) # NoneStr
    THEN IF Output1(o) # "-" /\ ~o.no_writer_process
         THEN <<Output1(o)>>
         ELSE <<>>
    ELSE IF ~(o.discard_trimmed /\ Truthy(o.untrimmed_output))
    THEN IF o.default_outfile # "-" /\ ~o.no_writer_process
         THEN <<o.default_outfile>> ELSE <<>>
    ELSE <<>>

ForceCreate(o) ==
    IF Multiplexed(Output1(o)) THEN <<>>
    ELSE IF Output1(o) # NoneStr
    THEN IF Output1(o) # "-" /\ ~o.no_writer_process
         THEN <<Output1(o)>> \o (IF Output2(o) # NoneStr THEN <<Output2(o)>> ELSE <<>>)
         ELSE <<>>
    ELSE IF ~(o.discard_trimmed /\ Truthy(o.untrimmed_output))
    THEN IF o.default_outfile # "-" /\ ~o.no_writer_process
         THEN <<o.default_outfile>> ELSE <<>>
    ELSE <<>>

\* The path of the untrimmed reads of a multiplexed run.
UntrimmedPath(o) ==
    IF Truthy(o.untrimmed_output) THEN o.untrimmed_output
    ELSE FormatUnknown(Output1(o))

\* The sinks of the untrimmed reads.
UntrimmedFormatters(o) ==
    IF o.discard_untrimmed THEN <<>>
    ELSE IF Multiplexed(Output1(o))
    THEN <<SeqFormatter("Untrimmed", UntrimmedPath(o), NoneStr),
           SeqFormatter("NoFilter", UntrimmedPath(o), NoneStr)>>
    ELSE IF Truthy(o.untrimmed_output)
    THEN <<SeqFormatter("Untrimmed", o.untrimmed_output, o.untrimmed_paired_output)>>
    ELSE <<>>

InfoFormatters(o) ==
    (IF Truthy(o.rest_file) THEN <<"RestFormatter">> ELSE <<>>)
    \o (IF Truthy(o.info_file) THEN <<"InfoFormatter">> ELSE <<>>)
    \o (IF Truthy(o.wildcard_file) THEN <<"WildcardFormatter">> ELSE <<>>)

CreateFiltersAndFormatters ==
    /\ pc = "filters"
    /\ min_affected' = MinAffected(options)
    /\ filters' = LengthFilters(options) \o UntrimmedFilters(options)
    /\ formatters' = LengthFormatters(options) \o MainFormatters(options)
                        \o UntrimmedFormatters(options)
    /\ force_create' = ForceCreate(options)
    /\ info_formatters' = InfoFormatters(options)
    /\ pc' = "warn"
    /\ UNCHANGED <<options, input, qualities, has_qual_file, adapters1, adapters2,
                   op_idx, modifiers, error_msg, exit_code>>
    /\ UNCHANGED runVars
    /\ UNCHANGED parVars
    /\ UNCHANGED cmdVars

(***************************************************************************)
(* trim                                                                    *)
(***************************************************************************)

\* params.modifiers.get_modifiers(read=2): the registrations that reach
\* read 2.
ModifiersForRead2(mods) ==
    {i \in 1..Len(mods) :
        IF mods[i].call = "add_modifier_pair" THEN mods[i].args2
        ELSE mods[i].read \in {0, 2}}

\* Whether trim logs the backwards-compatibility warning.
LegacyWarningAnyMode(o, mods) ==
    \/ Cardinality(ModifiersForRead2(mods)) > 0
    \/ o.quality_cutoff # <<>>

LegacyWarning(o, mods) ==
    /\ o.paired = "first"
    /\ \/ Cardinality(ModifiersForRead2(mods)) > 0
       \/ o.quality_cutoff # <<>>

LogAndWarn ==
    /\ pc = "warn"
    /\ warned' = LegacyWarning(options, modifiers)
    /\ pc' = "run"
    /\ UNCHANGED <<options, input, error_msg, exit_code, executor, rc, report_calls,
                   n_in, n_out, cur_pair, owner, written>>
    /\ UNCHANGED paramVars
    /\ UNCHANGED parVars
    /\ UNCHANGED cmdVars

\* Whether trim runs the single-threaded executor.
SingleThreaded(o) == IsNone(o.threads)

RunSerial ==
    /\ pc = "run"
    /\ SingleThreaded(options)
    /\ executor' = "serial"
    /\ pc' = "executing"
    /\ UNCHANGED <<options, input, error_msg, exit_code, warned, rc, report_calls,
                   n_in, n_out, cur_pair, owner, written>>
    /\ UNCHANGED paramVars
    /\ UNCHANGED parVars
    /\ UNCHANGED cmdVars

\* The arguments trim passes to run_parallel after the parameters.
RunParallelArgsNoOrder(o) ==
    [threads |-> o.threads[1], process_timeout |-> o.process_timeout,
     preserve_order |-> FALSE,
     read_queue_size |-> o.read_queue_size,
     result_queue_size |-> o.result_queue_size,
     writer_process |-> ~o.no_writer_process,
     compression |-> o.compression]

RunParallelArgs(o) ==
    [threads |-> o.threads[1], process_timeout |-> o.process_timeout,
     preserve_order |-> o.preserve_order,
     read_queue_size |-> o.read_queue_size,
     result_queue_size |-> o.result_queue_size,
     writer_process |-> ~o.no_writer_process,
     compression |-> o.compression]

RunParallel ==
    /\ pc = "run"
    /\ ~SingleThreaded(options)
    /\ executor' = "parallel"
    /\ run_args' = RunParallelArgs(options)
    /\ pc' = "executing"
    /\ UNCHANGED <<options, input, error_msg, exit_code, warned, rc, report_calls,
                   n_in, n_out, cur_pair, owner, written>>
    /\ UNCHANGED paramVars
    /\ UNCHANGED pipeVars
    /\ UNCHANGED cmdVars

(***************************************************************************)
(* The executor: one pair through the filter chain and the formatters      *)
(***************************************************************************)

\* The mates of a pair.
Mates(o) == IF o.paired = "False" THEN {1} ELSE {1, 2}

\* The pairs that differ in what the filters of the chain see: for each
\* predicate, the mates for which it is true.
Pairs(chain, o) ==
    LET kinds == {chain[i] : i \in 1..Len(chain)}
        Dim(on) == IF on THEN SUBSET Mates(o) ELSE {{}}
    IN {[short |-> s, long |-> l, ncontent |-> n, match |-> m] :
            s \in Dim("TooShort" \in kinds),
            l \in Dim("TooLong" \in kinds),
            n \in Dim("NContent" \in kinds),
            m \in Dim("Trimmed" \in kinds \/ "Untrimmed" \in kinds)}

\* The predicate of a filter kind on one mate.
MateMatches(kind, p, m) ==
    CASE kind = "TooShort" -> m \in p.short
      [] kind = "TooLong" -> m \in p.long
      [] kind = "NContent" -> m \in p.ncontent
      [] kind = "Trimmed" -> m \in p.match
      [] kind = "Untrimmed" -> m \notin p.match
      [] OTHER -> TRUE

\* The filter FilterFactory(paired, k) builds for a kind, on a pair.
PairMatches(kind, p, paired, k) ==
    IF paired = "both"
    THEN Cardinality({m \in {1, 2} : MateMatches(kind, p, m)}) >= k
    ELSE MateMatches(kind, p, 1)

\* The first filter of the chain that matches, NoFilter when none does.
Owner(chain, p, paired, k) ==
    LET hits == {i \in 1..Len(chain) : PairMatches(chain[i], p, paired, k)}
    IN IF hits = {} THEN "NoFilter"
       ELSE chain[CHOOSE i \in hits : \A j \in hits : i <= j]

\* The sinks registered for a kind, in order of registration.
SinksOf(fmts, kind) ==
    LET F[i \in 0..Len(fmts)] ==
            IF i = 0 THEN <<>>
            ELSE IF fmts[i].filter = kind THEN Append(F[i - 1], fmts[i].file1)
            ELSE F[i - 1]
    IN F[Len(fmts)]

ProcessPair ==
    /\ pc = "executing"
    /\ n_in < MaxPairs
    /\ \E p \in Pairs(filters, options) :
        /\ cur_pair' = p
        /\ owner' = Owner(filters, p, options.paired, min_affected)
        /\ written' = SinksOf(formatters, owner')
        /\ n_out' = n_out + Len(written')
    /\ n_in' = n_in + 1
    /\ UNCHANGED <<options, input, pc, error_msg, exit_code, warned, executor, rc,
                   report_calls>>
    /\ UNCHANGED paramVars
    /\ UNCHANGED parVars
    /\ UNCHANGED cmdVars

\* The return codes of an executor: success, a worker error, a timeout.
ReturnCodes == {0, 1, 2}

ExecutorReturns ==
    /\ pc = "executing"
    /\ \E r \in ReturnCodes : rc' = <<r>>
    /\ pc' = "returned"
    /\ UNCHANGED <<options, input, error_msg, exit_code, warned, executor,
                   report_calls, n_in, n_out, cur_pair, owner, written>>
    /\ UNCHANGED paramVars
    /\ UNCHANGED parVars
    /\ UNCHANGED cmdVars

\* Whether trim exits instead of reporting.
ExitsOnErrorOnly(r) == r > 1

ExitsOn(r) == r # 0

Exit ==
    /\ pc = "returned"
    /\ ExitsOn(rc[1])
    /\ exit_code' = rc
    /\ pc' = "exit"
    /\ UNCHANGED <<options, input, error_msg, warned, executor, rc, report_calls,
                   n_in, n_out, cur_pair, owner, written>>
    /\ UNCHANGED paramVars
    /\ UNCHANGED parVars
    /\ UNCHANGED cmdVars

PrintReport ==
    /\ pc = "returned"
    /\ ~ExitsOn(rc[1])
    /\ report_calls' = report_calls + 1
    /\ exit_code' = <<0>>
    /\ pc' = "done"
    /\ UNCHANGED <<options, input, error_msg, warned, executor, rc,
                   n_in, n_out, cur_pair, owner, written>>
    /\ UNCHANGED paramVars
    /\ UNCHANGED parVars
    /\ UNCHANGED cmdVars

Next ==
    \/ CreateReader
    \/ ParseAdapters
    \/ CheckAdapters
    \/ CheckInsertAligner
    \/ AddOpModifier
    \/ AddBisulfiteModifiers
    \/ AddOtherModifiers
    \/ CreateFiltersAndFormatters
    \/ LogAndWarn
    \/ RunSerial
    \/ RunParallel
    \/ ProcessPair
    \/ ExecutorReturns
    \/ Exit
    \/ PrintReport

Spec == Init /\ [][Next]_vars

(***************************************************************************)
(* Properties                                                              *)
(***************************************************************************)

\* create_atropos_params has returned its AtroposParams.
Built ==
    \/ pc \in {"warn", "run", "executing", "returned", "done"}
    \/ pc = "exit" /\ error_msg = NoMsg

\* A parser.error call ended the run before an executor was started.
ConfigurationError ==
    pc = "exit" /\ error_msg # NoMsg /\ exit_code = <<2>> /\ executor = "none"

\* The elements of seq that are in S, in the order of seq.
Restrict(seq, S) ==
    LET F[i \in 0..Len(seq)] ==
            IF i = 0 THEN <<>>
            ELSE IF seq[i] \in S THEN Append(F[i - 1], seq[i]) ELSE F[i - 1]
    IN F[Len(seq)]

\* Number of sequence formatters registered for a filter kind.
SinkCount(kind) ==
    Cardinality({i \in 1..Len(formatters) : formatters[i].filter = kind})

\* ---- C1 ----------------------------------------------------------------

\* Neither read has an adapter and none of the alternative trimming
\* criteria is set.
NoAdapterNoCriterion ==
    /\ options.adapters = <<>> /\ options.adapters2 = <<>>
    /\ options.quality_cutoff = <<>>
    /\ IsNone(options.nextseq_trim)
    /\ options.cut = <<>> /\ options.cut2 = <<>>
    /\ options.cut_min = <<>> /\ options.cut_min2 = <<>>
    /\ ~(~IsNone(options.minimum_length) /\ options.minimum_length[1] > 0)
    /\ ~(options.maximum_length < sys_maxsize)
    /\ ~has_qual_file
    /\ ~(options.max_n >= 0)
    /\ ~options.trim_n

\* The adapter check of create_atropos_params has run.
AdapterCheckDone ==
    /\ pc \notin {"create_reader", "parse_adapters", "check_adapters"}
    /\ error_msg # MsgReader

\* C1: once the adapter check has run, the run has ended with the missing
\* adapter error, before any executor was started, exactly when neither read
\* has an adapter and none of the alternative trimming criteria (quality
\* cutoff, NextSeq cutoff, cut, cut_min, minimum length > 0, finite maximum
\* length, qual file, max_n >= 0, trim_n) is set.
C1_MissingAdapterError ==
    AdapterCheckDone =>
        ((error_msg = MsgNeedAdapter /\ ConfigurationError) <=> NoAdapterNoCriterion)

\* ---- C2 ----------------------------------------------------------------

\* The adapters of a list that the adapter_pair name n selects.
Selected(list, other, n) ==
    IF options.adapter_pair # <<>> /\ list # <<>> /\ other # <<>>
    THEN {i \in 1..Len(list) : list[i].name = options.adapter_pair[n]}
    ELSE 1..Len(list)

\* After the name filtering, each read has exactly one adapter, a BACK one.
OneBackAdapterEach ==
    LET s1 == Selected(options.adapters, options.adapters2, 1)
        s2 == Selected(options.adapters2, options.adapters, 2)
    IN /\ Cardinality(s1) = 1 /\ \A i \in s1 : options.adapters[i].where = BACK
       /\ Cardinality(s2) = 1 /\ \A i \in s2 : options.adapters2[i].where = BACK

InsertCheckDone ==
    pc \notin {"create_reader", "parse_adapters", "check_adapters", "check_insert"}

UnknownPreset ==
    /\ options.bisulfite.isstr
    /\ options.bisulfite.str # ""
    /\ options.bisulfite.str \notin BisulfitePresets

BisulfiteDone ==
    pc \notin {"create_reader", "parse_adapters", "check_adapters", "check_insert",
               "op_order", "bisulfite"}

\* C3: a bisulfite preset that is none of the six names ends the run in a
\* configuration error before the pipeline starts.
C3_UnknownPresetError ==
    (UnknownPreset /\ BisulfiteDone) => ConfigurationError

\* ---- C4 ----------------------------------------------------------------

\* The op_order letter of a modifier class, "-" for a class of no category.
CategoryOf(cls) ==
    CASE cls \in {"AdapterCutter", "InsertAdapterCutter"} -> "A"
      [] cls = "UnconditionalCutter" -> "C"
      [] cls = "NextseqQualityTrimmer" -> "G"
      [] cls = "QualityTrimmer" -> "Q"
      [] OTHER -> "-"

\* The categories of the registered modifiers, in order of registration.
RegisteredCategories ==
    Restrict([i \in 1..Len(modifiers) |-> CategoryOf(modifiers[i].class)], OpLetters)

\* The categories the options enable.
EnabledCategories ==
    {l \in OpLetters :
        \/ l = "A" /\ (options.adapters # <<>> \/ options.adapters2 # <<>>)
        \/ l = "C" /\ (options.cut # <<>> \/ options.cut2 # <<>>)
        \/ l = "G" /\ ~IsNone(options.nextseq_trim)
        \/ l = "Q" /\ options.quality_cutoff # <<>>}

IsPermutation(oo) == Len(oo) = 4 /\ {oo[i] : i \in 1..4} = OpLetters

\* C4: for an op_order that is a permutation of C, G, Q, A, the category
\* modifiers registered are the enabled letters of op_order, each once, in
\* the order of op_order: of the letters passed while the loop runs, of all
\* of them once it is over.
C4_OpOrderCategories ==
    IsPermutation(options.op_order) =>
        /\ pc = "op_order"
            => RegisteredCategories =
                 Restrict(SubSeq(options.op_order, 1, op_idx - 1), EnabledCategories)
        /\ (BisulfiteDone \/ pc = "bisulfite") /\ error_msg = NoMsg
            => RegisteredCategories = Restrict(options.op_order, EnabledCategories)

\* A finished run with all four categories enabled, adapters first and the
\* cutters given for read 2 only.
C4_Witness ==
    /\ pc = "done"
    /\ options.op_order = <<"A", "Q", "G", "C">>
    /\ options.cut = <<>> /\ options.cut2 # <<>>
    /\ RegisteredCategories = <<"A", "Q", "G", "C">>

\* ---- C5 ----------------------------------------------------------------

FixedOrder == <<"TooShort", "TooLong", "NContent", "Trimmed", "Untrimmed">>

\* The filter kinds the options enable.
EnabledFilters ==
    {k \in {FixedOrder[i] : i \in 1..Len(FixedOrder)} :
        \/ k = "TooShort" /\ ~IsNone(options.minimum_length)
                          /\ options.minimum_length[1] > 0
        \/ k = "TooLong" /\ options.maximum_length < sys_maxsize
        \/ k = "NContent" /\ options.max_n >= 0
        \/ k = "Trimmed" /\ options.discard_trimmed
        \/ k = "Untrimmed" /\ (options.discard_untrimmed
                               \/ Truthy(options.untrimmed_output))}

\* The enabled filter kinds whose predicate is true of the pair processed
\* last, as positions of the fixed order.
MatchingPositions ==
    {i \in 1..Len(FixedOrder) :
        /\ FixedOrder[i] \in EnabledFilters
        /\ PairMatches(FixedOrder[i], cur_pair, options.paired, min_affected)}

\* C5: the filter chain is the fixed order TooShort, TooLong, NContent,
\* Trimmed, Untrimmed restricted to the enabled kinds, and a processed pair
\* is owned by the first kind of that order whose predicate is true, by
\* NoFilter when none is.
C5_FilterOrder ==
    Built =>
        /\ filters = Restrict(FixedOrder, EnabledFilters)
        /\ n_in > 0 =>
            IF MatchingPositions = {} THEN owner = "NoFilter"
            ELSE \E i \in MatchingPositions :
                    /\ \A j \in MatchingPositions : i <= j
                    /\ owner = FixedOrder[i]

\* A pair that is both too short and trimmed, owned by TooShort.
C5_Witness ==
    /\ n_in > 0
    /\ options.discard_trimmed
    /\ PairMatches("TooShort", cur_pair, options.paired, min_affected)
    /\ PairMatches("Trimmed", cur_pair, options.paired, min_affected)
    /\ owner = "TooShort"

\* ---- C6 ----------------------------------------------------------------

FilterKinds == {"TooShort", "TooLong", "NContent", "Trimmed", "Untrimmed",
                "MergedRead", "NoFilter"}

\* C6: no filter kind has two sequence formatters, and a processed pair is
\* written to at most one sequence sink, the one of the kind that owns it.
C6_OneSinkPerKind ==
    Built =>
        /\ \A k \in FilterKinds : SinkCount(k) <= 1
        /\ n_in > 0 =>
            /\ owner \in FilterKinds
            /\ Len(written) <= 1
            /\ written # <<>> => SinkCount(owner) = 1

\* A multiplexed run with untrimmed reads kept: a pair owned by NoFilter is
\* written once.
C6_Witness ==
    /\ Multiplexed(Output1(options))
    /\ ~options.discard_untrimmed
    /\ n_in > 0 /\ owner = "NoFilter" /\ Len(written) = 1

\* ---- C7 ----------------------------------------------------------------

\* Some filter of the chain is true of mate m of the pair processed last.
MateFails(m) ==
    \E i \in 1..Len(filters) : MateMatches(filters[i], cur_pair, m)

\* Some filter of the chain is true of both mates.
BothFail ==
    \E i \in 1..Len(filters) :
        MateMatches(filters[i], cur_pair, 1) /\ MateMatches(filters[i], cur_pair, 2)

\* The pair processed last is owned by a filter of the chain.
Filtered == owner # "NoFilter"

\* The part of C7 about 'any' and 'both'.
C7_AnyBoth ==
    Built =>
        /\ options.pair_filter = "any" => min_affected = 1
        /\ options.pair_filter = "both" => min_affected = 2
        /\ (options.paired = "both" /\ n_in > 0) =>
            /\ options.pair_filter = "any" => (Filtered <=> (MateFails(1) \/ MateFails(2)))
            /\ options.pair_filter = "both" => (Filtered <=> BothFail)

\* C7: 'any' filters a pair when at least one mate fails (min_affected 1),
\* 'both' only when both mates fail (min_affected 2), and 'first' evaluates
\* r1 only, so that a pair whose r1 passes is not filtered.
C7_PairFilterModes ==
    /\ C7_AnyBoth
    /\ (Built /\ options.paired = "both" /\ n_in > 0 /\ options.pair_filter = "first")
            => (Filtered <=> MateFails(1))

\* ---- C8 ----------------------------------------------------------------

\* C8: with discard_trimmed, TrimmedFilter is in the chain and has no
\* sequence formatter; a pair it owns is written to no sink, and a trimmed
\* pair that no earlier filter owns is owned by it.
C8_DiscardTrimmed ==
    (Built /\ options.discard_trimmed) =>
        /\ \E i \in 1..Len(filters) : filters[i] = "Trimmed"
        /\ SinkCount("Trimmed") = 0
        /\ n_in > 0 =>
            /\ owner = "Trimmed" => written = <<>>
            /\ PairMatches("Trimmed", cur_pair, options.paired, min_affected)
                => /\ owner \in {"TooShort", "TooLong", "NContent", "Trimmed"}
                   /\ owner \notin {"NoFilter", "Untrimmed"}

\* A multiplexed run with an untrimmed output that drops a trimmed pair.
C8_Witness ==
    /\ options.discard_trimmed
    /\ Multiplexed(Output1(options))
    /\ Truthy(options.untrimmed_output)
    /\ n_in > 0 /\ owner = "Trimmed" /\ written = <<>>

\* ---- C9 ----------------------------------------------------------------

\* No option enables a filter.
NoFilterActive ==
    /\ IsNone(options.minimum_length) \/ options.minimum_length[1] <= 0
    /\ options.maximum_length = sys_maxsize
    /\ options.max_n < 0
    /\ ~options.discard_trimmed /\ ~options.discard_untrimmed
    /\ ~Truthy(options.untrimmed_output)

\* C9: no more pair records are written than pairs are read; and when no
\* filter is active the chain is empty, NoFilter has exactly one sink and
\* every pair read is written exactly once.
C9_PairCounts ==
    /\ n_out <= n_in
    /\ (Built /\ NoFilterActive) =>
        /\ filters = <<>>
        /\ SinkCount("NoFilter") = 1
        /\ n_out = n_in
        /\ n_in > 0 => (owner = "NoFilter" /\ Len(written) = 1)

\* Pairs written to the default output file of a run without filters.
C9_Witness ==
    /\ NoFilterActive /\ options.output = NoneStr
    /\ ~Truthy(options.interleaved_output)
    /\ n_in > 0 /\ n_out = n_in
    /\ written = <<options.default_outfile>>

\* ---- C10 ---------------------------------------------------------------

\* C10: the serial executor runs exactly when options.threads is None, the
\* parallel one otherwise; a non-zero return code becomes the exit status
\* and print_report is not called; a zero return code is followed by exactly
\* one call of print_report.
C10_ExecutorAndExit ==
    /\ executor = "serial" => IsNone(options.threads)
    /\ executor = "parallel" => ~IsNone(options.threads)
    /\ pc \in {"executing", "returned"} => executor # "none"
    /\ report_calls <= 1
    /\ report_calls = 1 => rc = <<0>>
    /\ (rc # <<>> /\ pc # "returned") =>
        IF rc[1] # 0
        THEN pc = "exit" /\ exit_code = rc /\ report_calls = 0
        ELSE pc = "done" /\ report_calls = 1

\* The parallel executor timed out: exit status 2, no report.
C10_Witness ==
    /\ executor = "parallel" /\ rc = <<2>>
    /\ pc = "exit" /\ exit_code = <<2>> /\ report_calls = 0

\* ---- C12 ---------------------------------------------------------------

\* The path of the main output: the explicit output, or default_outfile
\* when none is given and a NoFilter sink is registered.
MainOutputPath ==
    IF Output1(options) # NoneStr THEN Output1(options)
    ELSE IF SinkCount("NoFilter") > 0 THEN options.default_outfile
    ELSE NoneStr

\* The path of the paired output that goes with an explicit main output.
PairedOutputPath ==
    IF Output1(options) # NoneStr THEN Output2(options) ELSE NoneStr

InForceCreate(path) == \E i \in 1..Len(force_create) : force_create[i] = path

\* The main output of a run that is not multiplexed is a file.
MainOutputIsFile ==
    /\ Built
    /\ ~Multiplexed(Output1(options))
    /\ MainOutputPath \notin {NoneStr, "-"}

\* The files of the main output are in the list handed to Writers.
MainOutputForced ==
    /\ InForceCreate(MainOutputPath)
    /\ PairedOutputPath # NoneStr => InForceCreate(PairedOutputPath)

\* C12 as claimed: whenever the main output of a non-multiplexed run is a
\* file other than '-', its path, and the paired output path when one is
\* given, is in force_create.
C12_ForceCreateAlways == MainOutputIsFile => MainOutputForced

\* C12 as amended: the same when no_writer_process is not set; with
\* no_writer_process set, force_create is empty.
C12_ForceCreateWithWriter ==
    /\ (MainOutputIsFile /\ ~options.no_writer_process) => MainOutputForced
    /\ (Built /\ options.no_writer_process) => force_create = <<>>

\* A run with a writer process, an output file and a paired output file.
C12_Witness ==
    /\ Built /\ ~options.no_writer_process
    /\ options.output = "out.fq" /\ options.paired_output = "out_2.fq"
    /\ force_create = <<"out.fq", "out_2.fq">>

\* ---- C13 ---------------------------------------------------------------

\* trim is past the statement that logs the warning.
WarningDone ==
    \/ pc \in {"run", "executing", "returned", "done"}
    \/ pc = "exit" /\ error_msg = NoMsg

\* A registered modifier reaches read 2.
Read2Modified ==
    \E i \in 1..Len(modifiers) :
        \/ modifiers[i].call = "add_modifier_pair" /\ modifiers[i].args2
        \/ modifiers[i].call = "add_modifier" /\ modifiers[i].read \in {0, 2}

\* C13: in legacy paired mode the warning is logged exactly when a modifier
\* reaches read 2 or a quality cutoff is set; in the other paired modes it is
\* never logged; and the step that decides it goes on to run the pipeline
\* and leaves the options and the parameters as they were.
C13_LegacyWarning ==
    /\ [](~WarningDone => ~warned)
    /\ [](WarningDone =>
            (warned <=> /\ options.paired = "first"
                        /\ (Read2Modified \/ options.quality_cutoff # <<>>)))
    /\ [][pc = "warn" => (pc' = "run" /\ UNCHANGED <<options, paramVars>>)]_vars

\* A legacy run warned only because of its quality cutoff, which went on to
\* finish.
C13_Witness ==
    /\ options.paired = "first" /\ warned /\ pc = "done"
    /\ ~Read2Modified /\ options.quality_cutoff # <<>>

\* ---- C14 ---------------------------------------------------------------

\* Place of a registered modifier in the claimed order: 0 for the op_order
\* categories, then one place per kind of modifier.
Rank(m) ==
    CASE CategoryOf(m.class) # "-" -> 0
      [] m.class \in {"NonDirectionalBisulfiteTrimmer", "RRBSTrimmer",
                      "SwiftBisulfiteTrimmer"} -> 1
      [] m.class = "MinCutter" /\ m.call = "add_modifier" -> 1
      [] m.class = "NEndTrimmer" -> 2
      [] m.class = "MinCutter" /\ m.call = "add_modifier_pair" -> 3
      [] m.class = "LengthTagModifier" -> 4
      [] m.class = "SuffixRemover" -> 5
      [] m.class = "PrefixSuffixAdder" -> 6
      [] m.class = "DoubleEncoder" -> 7
      [] m.class = "ZeroCapper" -> 8
      [] m.class = "PrimerTrimmer" -> 9
      [] m.class = "MergeOverlapping" -> 10
      [] OTHER -> 11

\* The places after the bisulfite one that the options switch on.
EnabledRanks ==
    {r \in 2..10 :
        \/ r = 2 /\ options.trim_n
        \/ r = 3 /\ (options.cut_min # <<>> \/ options.cut_min2 # <<>>)
        \/ r = 4 /\ Truthy(options.length_tag)
        \/ r = 5 /\ options.strip_suffix # <<>>
        \/ r = 6 /\ (Truthy(options.prefix) \/ Truthy(options.suffix))
        \/ r = 7 /\ options.double_encode
        \/ r = 8 /\ options.zero_cap /\ input.delivers_qualities
        \/ r = 9 /\ options.trim_primer
        \/ r = 10 /\ options.merge_overlapping}

ModifiersDone ==
    /\ BisulfiteDone /\ pc # "modifiers"
    /\ error_msg = NoMsg

\* C14: at every moment the registered modifiers are in the claimed order
\* (category modifiers first, then bisulfite or per-mate MinCutter, NEndTrimmer,
\* MinCutter pair, LengthTagModifier, SuffixRemover, PrefixSuffixAdder,
\* DoubleEncoder, ZeroCapper, PrimerTrimmer, MergeOverlapping), each kind at
\* most once except the per-mate MinCutter (read 1 before read 2); once all
\* are registered, those after the bisulfite place are exactly the ones the
\* options switch on (ZeroCapper only with an input that delivers
\* qualities), and MergeOverlapping, when enabled, is the last one.
C14_OtherModifiersOrder ==
    /\ \A i, j \in 1..Len(modifiers) :
          i < j =>
            /\ Rank(modifiers[i]) <= Rank(modifiers[j])
            /\ Rank(modifiers[j]) <= 10
            /\ (Rank(modifiers[i]) = Rank(modifiers[j]) /\ Rank(modifiers[j]) > 0)
                 => /\ Rank(modifiers[j]) = 1
                    /\ modifiers[i].read = 1 /\ modifiers[j].read = 2
    /\ ModifiersDone =>
          /\ {r \in 2..10 : \E i \in 1..Len(modifiers) : Rank(modifiers[i]) = r}
               = EnabledRanks
          /\ options.merge_overlapping
               => modifiers[Len(modifiers)].class = "MergeOverlapping"

\* A finished run with adapters ordered before quality trimming and every
\* other modifier switched on, reading an input that delivers qualities.
C14_Witness ==
    /\ pc = "done"
    /\ options.op_order = <<"A", "Q", "G", "C">>
    /\ options.bisulfite = BisParams(<<TRUE, TRUE>>)
    /\ EnabledRanks = 2..10
    /\ [i \in 1..Len(modifiers) |-> Rank(modifiers[i])]
         = <<0, 0, 0, 1, 1, 2, 3, 4, 5, 6, 7, 8, 9, 10>>

(***************************************************************************)
(* The parallel executor: reader, worker pool, writer                      *)
(***************************************************************************)

\* Parallel runs with a writer process, for each number of workers, both
\* queue sizes, with and without preserve_order.
ParallelOptions ==
    {[DefaultOptions EXCEPT
        !.threads = <<n>>, !.preserve_order = po,
        !.read_queue_size = q, !.result_queue_size = q] :
        n \in 1..MaxWorkers, po \in BOOLEAN, q \in {1, 2}}

ParallelInit ==
    /\ \E o \in ParallelOptions : options = o
    /\ input = DefaultInput
    /\ Entered

\* The stages run: run_parallel was called and no stage has signalled abort.
Running == pc = "executing" /\ executor = "parallel" /\ ~aborted

Workers == 1..run_args.threads

\* The reader puts the next batch on read_queue; it blocks while it is full.
ReaderPut ==
    /\ Running
    /\ sentinels_sent = 0
    /\ next_batch <= MaxBatches
    /\ Len(read_queue) < run_args.read_queue_size
    /\ read_queue' = Append(read_queue, next_batch)
    /\ next_batch' = next_batch + 1
    /\ UNCHANGED <<options, input, pc, error_msg, exit_code>>
    /\ UNCHANGED <<paramVars, runVars, run_args>>
    /\ UNCHANGED cmdVars
    /\ UNCHANGED <<sentinels_sent, working, result_queue, heap, next_index, output,
                   out_of_order, sentinels_seen, aborted>>

\* The input has ended: the reader puts one sentinel per worker.
ReaderSentinel ==
    /\ Running
    /\ sentinels_sent < run_args.threads
    /\ Len(read_queue) < run_args.read_queue_size
    /\ read_queue' = Append(read_queue, 0)
    /\ sentinels_sent' = sentinels_sent + 1
    /\ UNCHANGED <<options, input, pc, error_msg, exit_code>>
    /\ UNCHANGED <<paramVars, runVars, run_args>>
    /\ UNCHANGED cmdVars
    /\ UNCHANGED <<next_batch, working, result_queue, heap, next_index, output,
                   out_of_order, sentinels_seen, aborted>>

\* An idle worker takes the head of read_queue: a batch to process, or a
\* sentinel, after which it has only its final result to forward.
WorkerGet(w) ==
    /\ Running
    /\ working[w] = 0
    /\ read_queue # <<>>
    /\ working' = [working EXCEPT
                     ![w] = IF Head(read_queue) = 0 THEN -1 ELSE Head(read_queue)]
    /\ read_queue' = Tail(read_queue)
    /\ UNCHANGED <<options, input, pc, error_msg, exit_code>>
    /\ UNCHANGED <<paramVars, runVars, run_args>>
    /\ UNCHANGED cmdVars
    /\ UNCHANGED <<next_batch, sentinels_sent, result_queue, heap, next_index,
                   output, out_of_order, sentinels_seen, aborted>>

\* A worker puts its result on result_queue; it blocks while it is full.
\* After its final result it exits.
WorkerPut(w) ==
    /\ Running
    /\ working[w] \notin {0, -2}
    /\ Len(result_queue) < run_args.result_queue_size
    /\ result_queue' = Append(result_queue, IF working[w] = -1 THEN 0 ELSE working[w])
    /\ working' = [working EXCEPT ![w] = IF working[w] = -1 THEN -2 ELSE 0]
    /\ UNCHANGED <<options, input, pc, error_msg, exit_code>>
    /\ UNCHANGED <<paramVars, runVars, run_args>>
    /\ UNCHANGED cmdVars
    /\ UNCHANGED <<read_queue, next_batch, sentinels_sent, heap, next_index,
                   output, out_of_order, sentinels_seen, aborted>>

\* The batches the writer flushes from a heap h when it expects index n: the
\* head of the heap for as long as it is the expected index.
RECURSIVE Flush(_, _)
Flush(h, n) == IF n \in h THEN <<n>> \o Flush(h \ {n}, n + 1) ELSE <<>>

\* The writer takes the head of result_queue. With preserve_order it pushes
\* a batch on the heap and flushes; without, it writes the batch at once.
WriterGet ==
    /\ Running
    /\ result_queue # <<>>
    /\ result_queue' = Tail(result_queue)
    /\ LET k == Head(result_queue)
           f == Flush(heap \cup {k}, next_index)
       IN IF k = 0
          THEN /\ sentinels_seen' = sentinels_seen + 1
               /\ UNCHANGED <<heap, next_index, output, out_of_order>>
          ELSE /\ out_of_order' =
                     (out_of_order \/ k # Len(output) + Cardinality(heap) + 1)
               /\ IF run_args.preserve_order
                  THEN /\ output' = output \o f
                       /\ next_index' = next_index + Len(f)
                       /\ heap' = (heap \cup {k}) \ {f[i] : i \in 1..Len(f)}
                  ELSE /\ output' = Append(output, k)
                       /\ UNCHANGED <<heap, next_index>>
               /\ UNCHANGED sentinels_seen
    /\ UNCHANGED <<options, input, pc, error_msg, exit_code>>
    /\ UNCHANGED <<paramVars, runVars, run_args>>
    /\ UNCHANGED cmdVars
    /\ UNCHANGED <<read_queue, next_batch, sentinels_sent, working, aborted>>

\* The writer has seen the final result of every worker.
WriterDone == sentinels_seen = run_args.threads

\* A worker error, a timeout or a signal sets the abort flag; the stages stop
\* at their next queue operation and the batches in flight are dropped.
Abort ==
    /\ Running
    /\ ~WriterDone
    /\ aborted' = TRUE
    /\ UNCHANGED <<options, input, pc, error_msg, exit_code>>
    /\ UNCHANGED <<paramVars, runVars, run_args>>
    /\ UNCHANGED cmdVars
    /\ UNCHANGED <<read_queue, next_batch, sentinels_sent, working, result_queue,
                   heap, next_index, output, out_of_order, sentinels_seen>>

\* run_parallel returns: 0 once the writer is done, non-zero after an abort.
ParallelReturns ==
    /\ pc = "executing" /\ executor = "parallel"
    /\ \/ WriterDone /\ ~aborted /\ rc' = <<0>>
       \/ aborted /\ \E r \in ReturnCodes \ {0} : rc' = <<r>>
    /\ pc' = "returned"
    /\ UNCHANGED <<options, input, error_msg, exit_code, warned, executor,
                   report_calls, n_in, n_out, cur_pair, owner, written>>
    /\ UNCHANGED paramVars
    /\ UNCHANGED parVars
    /\ UNCHANGED cmdVars

ParallelNext ==
    \/ CreateReader
    \/ ParseAdapters
    \/ CheckAdapters
    \/ CheckInsertAligner
    \/ AddOpModifier
    \/ AddBisulfiteModifiers
    \/ AddOtherModifiers
    \/ CreateFiltersAndFormatters
    \/ LogAndWarn
    \/ RunParallel
    \/ ReaderPut
    \/ ReaderSentinel
    \/ \E w \in Workers : WorkerGet(w)
    \/ \E w \in Workers : WorkerPut(w)
    \/ WriterGet
    \/ Abort
    \/ ParallelReturns
    \/ Exit
    \/ PrintReport

SpecParallel == ParallelInit /\ [][ParallelNext]_vars

\* ---- C11 ---------------------------------------------------------------

\* The first n batch indices, in order.
Upto(n) == [i \in 1..n |-> i]

\* C11: in a parallel run started with preserve_order set, whatever the
\* number of workers and the order their results arrive in, the batches
\* written are at every moment 1, 2, ..., k with no gap and no duplicate; a
\* batch is held back exactly while an earlier one is missing; and when the
\* writer is done everything the reader emitted has been written in input
\* order.
C11_PreserveOrder ==
    (options.preserve_order /\ executor = "parallel") =>
        /\ output = Upto(Len(output))
        /\ next_index = Len(output) + 1
        /\ \A k \in heap : k > next_index
        /\ (WriterDone /\ ~aborted) => (heap = {} /\ output = Upto(next_batch - 1))

\* A finished run in which a result overtook an earlier batch on its way to
\* the writer and every batch was still written in input order.
C11_Witness ==
    /\ options.preserve_order /\ pc = "done"
    /\ out_of_order
    /\ Len(output) >= 2 /\ output = Upto(next_batch - 1)

(***************************************************************************)
(* detect and error                                                        *)
(***************************************************************************)

MsgNoQualities == "Cannot estimate error rate without base qualities"

\* What detect and error leave alone: the parameters trim builds and its
\* executors.
buildVars == <<adapters1, adapters2, op_idx, modifiers, min_affected, filters,
               formatters, info_formatters, force_create>>

\* detect or error is called on single-end or paired input that is readable
\* or not, has qualities or not and yields up to MaxReads items; the names
\* commands.py uses without importing them (load_known_contaminants, the
\* detector classes, open_output, ErrorEstimator, enumerate_range in error)
\* are bound in its namespace or, as the file stands, are not.
CommandsInit ==
    /\ command \in {"detect", "error"}
    /\ globals_bound \in BOOLEAN
    /\ \E p \in {"False", "both"} : options = [DefaultOptions EXCEPT !.paired = p]
    /\ \E r \in BOOLEAN, q \in BOOLEAN :
          input = [readable |-> r, delivers_qualities |-> q]
    /\ reads_left \in 0..MaxReads
    /\ pc = IF command = "detect" THEN "setup" ELSE "call_create_reader"
    /\ Fresh

\* Where control goes when a statement raises: into the finally clause when
\* the statement is inside the try block, out of the command otherwise.
AfterRaiseNoFinally(in_try) == "raised"

AfterRaise(in_try) == IF in_try THEN "finally" ELSE "raised"

\* Exit status of an exception that leaves the command.
StatusOf(e) == IF e = NoExc THEN 0 ELSE IF e = "SystemExit" THEN 2 ELSE 1

\* A statement raises e at a place that is inside the try block or not.
Raise(e, in_try) ==
    /\ exc' = e
    /\ pc' = AfterRaise(in_try)
    /\ exit_code' = IF in_try THEN exit_code ELSE <<StatusOf(e)>>

\* detect, before the reader is created: every path looks up a name the
\* module does not bind (load_known_contaminants or a detector class).
DetectSetup ==
    /\ command = "detect" /\ pc = "setup"
    /\ IF globals_bound
       THEN pc' = "call_create_reader" /\ UNCHANGED <<exc, exit_code>>
       ELSE Raise("NameError", FALSE)
    /\ UNCHANGED <<options, input, buildVars, runVars, parVars, command, globals_bound>>
    /\ UNCHANGED <<qualities, has_qual_file, error_msg, reader_returned,
                   close_calls, reads_left>>

\* The call of create_reader, ahead of the try block.
CallCreateReader ==
    /\ command \in {"detect", "error"} /\ pc = "call_create_reader"
    /\ IF ~input.readable
       THEN /\ ParserError(MsgReader)
            /\ UNCHANGED <<qualities, has_qual_file, reader_returned>>
       ELSE /\ qualities' = input.delivers_qualities
            /\ has_qual_file' = (QualFile(options) # NoneStr)
            /\ reader_returned' = TRUE
            /\ pc' = IF command = "error" THEN "check_qualities" ELSE "open_output"
            /\ UNCHANGED <<error_msg, exit_code>>
    /\ UNCHANGED <<options, input, buildVars, runVars, parVars, command, globals_bound>>
    /\ UNCHANGED <<close_calls, exc, reads_left>>

\* error: without base qualities parser.error is called inside the try block.
ErrorCheckQualities ==
    /\ command = "error" /\ pc = "check_qualities"
    /\ IF ~qualities
       THEN /\ error_msg' = MsgNoQualities
            /\ Raise("SystemExit", TRUE)
       ELSE /\ pc' = "open_output"
            /\ UNCHANGED <<error_msg, exc, exit_code>>
    /\ UNCHANGED <<options, input, buildVars, runVars, parVars, command, globals_bound>>
    /\ UNCHANGED <<qualities, has_qual_file, reader_returned, close_calls, reads_left>>

\* with open_output(...) as o: the name is unbound, the file cannot be
\* opened, or the body is entered.
OpenOutput ==
    /\ command \in {"detect", "error"} /\ pc = "open_output"
    /\ IF ~globals_bound
       THEN Raise("NameError", TRUE)
       ELSE \/ Raise("IOError", TRUE)
            \/ /\ pc' = IF command = "detect" /\ options.paired # "False"
                        THEN "first" ELSE "loop"
               /\ UNCHANGED <<exc, exit_code>>
    /\ UNCHANGED <<options, input, buildVars, runVars, parVars, command, globals_bound>>
    /\ UNCHANGED <<qualities, has_qual_file, error_msg, reader_returned,
                   close_calls, reads_left>>

\* detect, paired: next(reader) ahead of the loop.
DetectFirst ==
    /\ command = "detect" /\ pc = "first"
    /\ IF reads_left = 0
       THEN Raise("StopIteration", TRUE) /\ UNCHANGED reads_left
       ELSE \/ Raise("FormatError", TRUE) /\ UNCHANGED reads_left
            \/ /\ reads_left' = reads_left - 1
               /\ pc' = "loop"
               /\ UNCHANGED <<exc, exit_code>>
    /\ UNCHANGED <<options, input, buildVars, runVars, parVars, command, globals_bound>>
    /\ UNCHANGED <<qualities, has_qual_file, error_msg, reader_returned, close_calls>>

\* detect: one turn of the loop over the reader, which yields an item,
\* raises on a malformed record, or is exhausted.
DetectLoop ==
    /\ command = "detect" /\ pc = "loop"
    /\ IF reads_left = 0
       THEN pc' = "summarize" /\ UNCHANGED <<exc, exit_code, reads_left>>
       ELSE \/ Raise("FormatError", TRUE) /\ UNCHANGED reads_left
            \/ /\ reads_left' = reads_left - 1
               /\ UNCHANGED <<pc, exc, exit_code>>
    /\ UNCHANGED <<options, input, buildVars, runVars, parVars, command, globals_bound>>
    /\ UNCHANGED <<qualities, has_qual_file, error_msg, reader_returned, close_calls>>

\* detect: the summaries are written, or writing fails; the with block ends.
DetectSummarize ==
    /\ command = "detect" /\ pc = "summarize"
    /\ \/ Raise("IOError", TRUE)
       \/ pc' = "finally" /\ UNCHANGED <<exc, exit_code>>
    /\ UNCHANGED <<options, input, buildVars, runVars, parVars, command, globals_bound>>
    /\ UNCHANGED <<qualities, has_qual_file, error_msg, reader_returned,
                   close_calls, reads_left>>

\* error: one turn of the loop over the reader. The body uses e2 (paired) or
\* e (single-end), which nothing assigns.
ErrorLoop ==
    /\ command = "error" /\ pc = "loop"
    /\ IF reads_left = 0
       THEN pc' = "report" /\ UNCHANGED <<exc, exit_code, reads_left>>
       ELSE \/ Raise("FormatError", TRUE) /\ UNCHANGED reads_left
            \/ /\ reads_left' = reads_left - 1
               /\ Raise("NameError", TRUE)
    /\ UNCHANGED <<options, input, buildVars, runVars, parVars, command, globals_bound>>
    /\ UNCHANGED <<qualities, has_qual_file, error_msg, reader_returned, close_calls>>

\* error: the report after the loop, which uses e2 or e as well.
ErrorReport ==
    /\ command = "error" /\ pc = "report"
    /\ Raise("NameError", TRUE)
    /\ UNCHANGED <<options, input, buildVars, runVars, parVars, command, globals_bound>>
    /\ UNCHANGED <<qualities, has_qual_file, error_msg, reader_returned,
                   close_calls, reads_left>>

\* finally: reader.close(), then the command returns or the exception goes on.
Finally ==
    /\ command \in {"detect", "error"} /\ pc = "finally"
    /\ close_calls' = close_calls + 1
    /\ exit_code' = <<StatusOf(exc)>>
    /\ pc' = IF exc = NoExc THEN "done" ELSE IF exc = "SystemExit" THEN "exit" ELSE "raised"
    /\ UNCHANGED <<options, input, buildVars, runVars, parVars, command, globals_bound>>
    /\ UNCHANGED <<qualities, has_qual_file, error_msg, reader_returned, exc, reads_left>>

CommandsNext ==
    \/ DetectSetup
    \/ CallCreateReader
    \/ ErrorCheckQualities
    \/ OpenOutput
    \/ DetectFirst
    \/ DetectLoop
    \/ DetectSummarize
    \/ ErrorLoop
    \/ ErrorReport
    \/ Finally

SpecCommands == CommandsInit /\ [][CommandsNext]_vars

\* ---- C15 ---------------------------------------------------------------

\* The command is over: it returned, exited, or an exception left it.
CommandOver == pc \in {"done", "exit", "raised"}

\* C15: in detect and error, reader.close() is never called before
\* create_reader has returned a reader and never more than once, and when the
\* command is over after create_reader returned a reader, whether it
\* returned, exited through parser.error or was left by an exception, it
\* has been called exactly once.
C15_CloseOnce ==
    command \in {"detect", "error"} =>
        /\ close_calls <= 1
        /\ ~reader_returned => close_calls = 0
        /\ (CommandOver /\ reader_returned) => close_calls = 1

\* error on an input without qualities: parser.error ended the command with
\* status 2 and the reader was closed once.
C15_Witness ==
    /\ command = "error" /\ pc = "exit"
    /\ reader_returned /\ exc = "SystemExit" /\ error_msg = MsgNoQualities
    /\ exit_code = <<2>> /\ close_calls = 1

====
